---- MODULE Spec2Model ----
(***************************************************************************)
(* Model of the four diagnostic scripts of the repository:                 *)
(*   check_api_usage.py, test_api.py, test_gpt35.py, test_realtime_api.py  *)
(* Each script loads API_KEY from the .env file at import time and then    *)
(* runs its checks.  Network replies are inputs chosen by the environment. *)
(***************************************************************************)
EXTENDS Integers, Sequences, FiniteSets, TLC

VARIABLES
    script,     \* which of the four scripts this run executes
    env,        \* the .env file: a sequence of lines, each a sequence of characters
    API_KEY,    \* module global API_KEY (Unset before load_api_key has run)
    pc,         \* position of the script's single thread of control
    response,   \* the local `response`: the latest reply bound by requests.get / .post
    http,       \* number of times each HTTP request has been issued
    wsOpens,    \* number of websockets.connect calls
    ws,         \* state of the WebSocket connection: "none", "open", "closed"
    sent,       \* types of the messages passed to websocket.send, in order
    reads,      \* number of websocket.recv calls, modulo ReadWrap + 1
    lastRecv,   \* how the latest websocket.recv / json.loads ended
    event,      \* type of the event last parsed by the realtime script
    exc,        \* exception being propagated in test_realtime_connection
    escaped,    \* exception that left a check uncaught ("none" if there is none)
    failed,     \* the checks in which a failure occurred
    result,     \* return value of every check
    calls,      \* the checks called so far, in call order
    out         \* the diagnostics printed so far

vars == <<script, env, API_KEY, pc, response, http, wsOpens, ws, sent, reads, lastRecv, event, exc,
          escaped, failed, result, calls, out>>

----------------------------------------------------------------------------
(* Bounds *)

MaxTok == 3       \* longest text after the line's lead-in in a generated .env line
ReadWrap == 3     \* the recv counter wraps after ReadWrap

----------------------------------------------------------------------------
(* load_api_key: the same function in all four scripts *)

None == <<"None">>
Unset == <<"Unset">>

Prefix == <<"O","P","E","N","A","I","_","A","P","I","_","K","E","Y","=">>

Whitespace == {" ", "\n"}

\* str.startswith
startswith(s, p) == Len(s) >= Len(p) /\ SubSeq(s, 1, Len(p)) = p

\* str.split(sep) for a one-character separator: the parts between separators
RECURSIVE split(_, _)
split(s, sep) ==
    IF \A i \in 1..Len(s) : s[i] # sep
    THEN <<s>>
    ELSE LET i == CHOOSE k \in 1..Len(s) :
                      s[k] = sep /\ \A j \in 1..(k-1) : s[j] # sep
         IN  <<SubSeq(s, 1, i-1)>> \o split(SubSeq(s, i+1, Len(s)), sep)

\* str.strip(): drop leading and trailing whitespace
RECURSIVE lstrip(_)
lstrip(s) == IF s # <<>> /\ Head(s) \in Whitespace THEN lstrip(Tail(s)) ELSE s

RECURSIVE rstrip(_)
rstrip(s) ==
    IF s # <<>> /\ s[Len(s)] \in Whitespace THEN rstrip(SubSeq(s, 1, Len(s)-1)) ELSE s

strip(s) == rstrip(lstrip(s))

\* for line in f: if line.startswith('OPENAI_API_KEY='): return line.split('=')[1].strip()
RECURSIVE load_api_key(_)
load_api_key(f) ==
    IF f = <<>> THEN None
    ELSE IF startswith(Head(f), Prefix) THEN strip(split(Head(f), "=")[2])
    ELSE load_api_key(Tail(f))

\* `if not API_KEY`: None and the empty string are both falsy
NoKey(k) == k = None \/ k = <<>>

----------------------------------------------------------------------------
(* The .env files the model draws from *)

RECURSIVE SeqsUpTo(_, _)
SeqsUpTo(S, n) ==
    IF n = 0 THEN {<<>>}
    ELSE LET shorter == SeqsUpTo(S, n-1)
         IN  shorter \cup {Append(s, c) : s \in shorter, c \in S}

TokChars == {"a", "=", " "}

\* a line starts with the prefix, with a commented-out prefix, or with neither
Leads == {Prefix, <<"#">> \o Prefix, <<>>}

Lines == {lead \o rest \o <<"\n">> : lead \in Leads, rest \in SeqsUpTo(TokChars, MaxTok)}

\* files of no line, one line or two lines: two lines are what "the first line
\* that starts with the prefix" needs
Files == {<<>>} \cup {<<l>> : l \in Lines} \cup {<<l1, l2>> : l1, l2 \in Lines}

\* the few files the scripts are run against in Spec
SampleFiles ==
    { <<>>,
      << <<"#", "\n">> >>,
      << Prefix \o <<"\n">> >>,
      << <<"#", "\n">>, Prefix \o <<"a", "a", "\n">> >>,
      << Prefix \o <<"a", "=", "a", "\n">> >> }

Scripts == {"check_api_usage", "test_api", "test_gpt35", "test_realtime_api"}

Requests == {"GET /v1/models/gpt-3.5-turbo", "GET /v1/models",
             "POST /v1/chat/completions", "POST /v1/audio/speech"}

Checks == {"check_api_limits", "test_connection", "test_chat_completion",
           "test_whisper", "test_tts", "test_complete_flow", "gpt35_body",
           "test_realtime_connection"}

NoResponse == [raised |-> "none", status |-> 0, body |-> "empty"]

NoExc == [cls |-> "none", code |-> 0]

Idle ==
    /\ API_KEY = Unset
    /\ pc = "load"
    /\ response = NoResponse
    /\ http = [r \in Requests |-> 0]
    /\ wsOpens = 0
    /\ ws = "none"
    /\ sent = <<>>
    /\ reads = 0
    /\ lastRecv = "none"
    /\ event = "none"
    /\ exc = NoExc
    /\ escaped = "none"
    /\ failed = {}
    /\ result = [c \in Checks |-> "unset"]
    /\ calls = <<>>
    /\ out = {}

Init == script \in Scripts /\ env \in SampleFiles /\ Idle

InitKey == script \in Scripts /\ env \in Files /\ Idle

\* API_KEY = load_api_key(), executed when the script is loaded
LoadKey ==
    /\ pc = "load"
    /\ API_KEY' = load_api_key(env)
    /\ pc' = "main"
    /\ UNCHANGED <<script, env, response, http, wsOpens, ws, sent, reads, lastRecv, event, exc,
                   escaped, failed, result, calls, out>>


----------------------------------------------------------------------------
(* test_realtime_api.py *)

RT == "test_realtime_connection"

\* every exception class the model raises derives from Exception
ExceptionClasses == {"InvalidStatusCode", "TimeoutError", "ConnectionClosed",
                     "ConnectionError", "JSONDecodeError", "KeyError", "TypeError",
                     "AttributeError", "OSError"}

EventTypes == {"error", "session.created", "response.done", "response.text.delta",
               "response.created"}

ErrorCodes == {"invalid_api_key", "insufficient_quota", "unauthorized", "server_error"}

HandshakeStatuses == {401, 403, 429, 503, 500}

\* what one `await asyncio.wait_for(websocket.recv(), ...)` then json.loads gives:
\* payload is the shape of the event's 'error' / 'session' member
RecvOutcomes ==
    [kind : {"timeout", "closed", "badjson", "nondict", "notype"},
     type : {"none"}, payload : {"absent"}, code : {"none"}]
    \cup
    [kind : {"event"}, type : EventTypes \ {"error"},
     payload : {"absent", "dict", "nondict"}, code : {"none"}]
    \cup
    [kind : {"event"}, type : {"error"}, payload : {"absent", "nondict"}, code : {"none"}]
    \cup
    [kind : {"event"}, type : {"error"}, payload : {"dict"}, code : ErrorCodes]

\* the exception lines 70-73 / 122-125 raise on outcome r ("none": they raise nothing)
recv_raises(r) ==
    CASE r.kind = "timeout" -> "TimeoutError"     \* asyncio.wait_for
      [] r.kind = "closed"  -> "ConnectionClosed" \* websocket.recv
      [] r.kind = "badjson" -> "JSONDecodeError"  \* json.loads
      [] r.kind = "nondict" -> "TypeError"        \* event['type'] on a list or number
      [] r.kind = "notype"  -> "KeyError"         \* event['type']
      [] OTHER -> "none"

\* except_clause with the handlers retrying: a timeout reconnects
except_clause_retry(e) ==
    IF e = "InvalidStatusCode" THEN "rt_except_status"
    ELSE IF e = "TimeoutError" THEN "rt_connect"
    ELSE IF e \in ExceptionClasses THEN "rt_except_any"
    ELSE "crashed"

\* except_clause with `except Exception` placed before `except asyncio.TimeoutError`
except_clause_generic_first(e) ==
    IF e = "InvalidStatusCode" THEN "rt_except_status"
    ELSE IF e \in ExceptionClasses THEN "rt_except_any"
    ELSE "crashed"

\* the except clause of the try statement (lines 138, 152, 156) that takes exception e
except_clause(e) ==
    IF e = "InvalidStatusCode" THEN "rt_except_status"
    ELSE IF e = "TimeoutError" THEN "rt_except_timeout"
    ELSE IF e \in ExceptionClasses THEN "rt_except_any"
    ELSE "crashed"

\* first_event_branch with every event other than an error taken as session.created
first_event_branch_no_else(t) ==
    IF t = "error" THEN "error" ELSE "created"

\* the branch of lines 75 / 90 / 134 taken for the first event
first_event_branch(t) ==
    IF t = "error" THEN "error"
    ELSE IF t = "session.created" THEN "created"
    ELSE "unexpected"

\* loop_branch without the break on response.done
loop_branch_never_breaks(t) ==
    IF t = "response.text.delta" THEN "delta" ELSE "next"

\* loop_branch breaking on every response.* event
loop_branch_any_response(t) ==
    IF t \in {"response.done", "response.text.delta", "response.created"} THEN "break"
    ELSE "next"

\* loop_branch leaving the loop on an error event as well
loop_branch_error_ends(t) ==
    IF t \in {"response.done", "error"} THEN "break"
    ELSE IF t = "response.text.delta" THEN "delta"
    ELSE "next"

\* the branch of lines 125 / 128 taken for an event read in the response loop
loop_branch(t) ==
    IF t = "response.done" THEN "break"
    ELSE IF t = "response.text.delta" THEN "delta"
    ELSE "next"

\* the diagnostic of lines 81-86 for an error event's code
error_code_diag(code) ==
    IF code = "invalid_api_key" THEN {"rt_key_invalid"}
    ELSE IF code = "insufficient_quota" THEN {"rt_insufficient_quota"}
    ELSE IF code = "unauthorized" THEN {"rt_no_realtime_access"}
    ELSE {}

\* the diagnostic of lines 141-148 for a handshake status code
status_code_diag(code) ==
    IF code = 401 THEN {"rt_status_401"}
    ELSE IF code = 403 THEN {"rt_status_403"}
    ELSE IF code = 429 THEN {"rt_status_429"}
    ELSE IF code = 503 THEN {"rt_status_503"}
    ELSE {}

\* the connection kept from a bare `await websockets.connect(...)`: nothing closes it
async_with_leak(w) == w

\* line 50: control leaves the `async with websockets.connect(...)` block, by a
\* return or by an exception, and the context manager closes the connection
async_with_exit(w) == IF w = "open" THEN "closed" ELSE w

\* an exception of class e leaves the try body of test_realtime_connection
RT_Raise(e, code) ==
    /\ exc' = [cls |-> e, code |-> code]
    /\ pc' = except_clause(e)
    /\ escaped' = IF except_clause(e) = "crashed" THEN e ELSE escaped
    /\ failed' = failed \cup {RT}

\* `return v` inside test_realtime_connection
RT_Return(v) ==
    /\ result' = [result EXCEPT ![RT] = v]
    /\ pc' = "rt_report"

\* main, line 197: has_access = await test_realtime_connection()
RT_Main ==
    /\ pc = "main" /\ script = "test_realtime_api"
    /\ calls' = Append(calls, RT)
    /\ pc' = "rt_begin"
    /\ UNCHANGED <<script, env, API_KEY, response, http, wsOpens, ws, sent, reads, lastRecv,
                   event, exc, escaped, failed, result, out>>

\* lines 26-35
RT_Begin ==
    /\ pc = "rt_begin"
    /\ IF NoKey(API_KEY)
       THEN /\ out' = out \cup {"rt_no_key"}
            /\ RT_Return("False")
       ELSE /\ out' = out \cup {"rt_using_key"}
            /\ pc' = "rt_connect"
            /\ UNCHANGED result
    /\ UNCHANGED <<script, env, API_KEY, response, http, wsOpens, ws, sent, reads, lastRecv,
                   event, exc, escaped, failed, calls>>

\* lines 38-51: the SSL context, then websockets.connect
RT_Connect ==
    /\ pc = "rt_connect"
    /\ \E o \in {"ok", "ssl_error", "net_error", "bad_status"} :
       \E code \in HandshakeStatuses :
          /\ wsOpens' = IF o = "ssl_error" THEN wsOpens ELSE wsOpens + 1
          /\ CASE o = "ok" ->
                    /\ ws' = "open"
                    /\ out' = out \cup {"rt_attempt", "rt_connected"}
                    /\ pc' = "rt_send_update"
                    /\ UNCHANGED <<exc, escaped, failed>>
               [] o = "bad_status" ->
                    /\ RT_Raise("InvalidStatusCode", code)
                    /\ out' = out \cup {"rt_attempt"}
                    /\ UNCHANGED ws
               [] OTHER ->
                    /\ RT_Raise("OSError", 0)
                    /\ out' = out \cup {"rt_attempt"}
                    /\ UNCHANGED ws
    /\ UNCHANGED <<script, env, API_KEY, response, http, sent, reads, lastRecv, event, result,
                   calls>>

\* one `await websocket.send(json.dumps(msg))` followed by its print; leaving the
\* `async with` block by an exception closes the connection
RT_Send(msg, printed, next) ==
    /\ sent' = Append(sent, msg)
    /\ \E ok \in BOOLEAN :
          IF ok
          THEN /\ out' = out \cup printed
               /\ pc' = next
               /\ UNCHANGED <<ws, exc, escaped, failed>>
          ELSE /\ RT_Raise("ConnectionClosed", 0)
               /\ ws' = async_with_exit(ws)
               /\ UNCHANGED out
    /\ UNCHANGED <<script, env, API_KEY, response, http, wsOpens, reads, lastRecv, event,
                   result, calls>>

\* lines 54-67
RT_SendSessionUpdate ==
    /\ pc = "rt_send_update"
    /\ RT_Send("session.update", {"rt_sent_config"}, "rt_recv_first")

\* lines 70-136: the first reply and the branch on its type
RT_RecvFirst ==
    /\ pc = "rt_recv_first"
    /\ \E r \in RecvOutcomes :
          /\ reads' = (reads + 1) % (ReadWrap + 1)
          /\ lastRecv' = r.kind
          /\ IF recv_raises(r) # "none"
             THEN /\ RT_Raise(recv_raises(r), 0)
                  /\ ws' = async_with_exit(ws)
                  \* json.loads assigned event when only event['type'] failed
                  /\ event' = IF r.kind \in {"nondict", "notype"} THEN "untyped" ELSE event
                  /\ UNCHANGED <<out, result>>
             ELSE /\ event' = r.type
                  /\ CASE first_event_branch(r.type) = "error" ->
                            IF r.payload = "nondict"
                            THEN /\ RT_Raise("AttributeError", 0)
                                 /\ ws' = async_with_exit(ws)
                                 /\ out' = out \cup {"rt_received", "rt_server_error"}
                                 /\ UNCHANGED result
                            ELSE /\ out' = out \cup {"rt_received", "rt_server_error"}
                                             \cup error_code_diag(r.code)
                                 /\ RT_Return("False")
                                 /\ ws' = async_with_exit(ws)
                                 /\ failed' = failed \cup {RT}
                                 /\ UNCHANGED <<exc, escaped>>
                       [] first_event_branch(r.type) = "created" ->
                            IF r.payload = "nondict"
                            THEN /\ RT_Raise("AttributeError", 0)
                                 /\ ws' = async_with_exit(ws)
                                 /\ out' = out \cup {"rt_received", "rt_session_created"}
                                 /\ UNCHANGED result
                            ELSE /\ out' = out \cup {"rt_received", "rt_session_created"}
                                 /\ pc' = "rt_send_item"
                                 /\ UNCHANGED <<ws, exc, escaped, failed, result>>
                       [] OTHER ->
                            /\ out' = out \cup {"rt_received", "rt_unexpected"}
                            /\ RT_Return("False")
                            /\ ws' = async_with_exit(ws)
                            /\ failed' = failed \cup {RT}
                            /\ UNCHANGED <<exc, escaped>>
    /\ UNCHANGED <<script, env, API_KEY, response, http, wsOpens, sent, calls>>

\* lines 97-110
RT_SendItem ==
    /\ pc = "rt_send_item"
    /\ RT_Send("conversation.item.create", {"rt_sent_test"}, "rt_send_create")

\* lines 113-119
RT_SendResponseCreate ==
    /\ pc = "rt_send_create"
    /\ RT_Send("response.create", {"rt_waiting"}, "rt_loop")

\* lines 121-132: one iteration of `while True`
RT_RecvLoop ==
    /\ pc = "rt_loop"
    /\ \E r \in RecvOutcomes :
          /\ reads' = (reads + 1) % (ReadWrap + 1)
          /\ lastRecv' = r.kind
          /\ IF recv_raises(r) # "none"
             THEN /\ RT_Raise(recv_raises(r), 0)
                  /\ ws' = async_with_exit(ws)
                  /\ event' = IF r.kind \in {"nondict", "notype"} THEN "untyped" ELSE event
                  /\ UNCHANGED <<out, result>>
             ELSE /\ event' = r.type
                  /\ CASE loop_branch(r.type) = "break" ->
                            /\ out' = out \cup {"rt_ai_done"}
                            /\ RT_Return("True")
                            /\ ws' = async_with_exit(ws)
                            /\ UNCHANGED <<exc, escaped, failed>>
                       [] loop_branch(r.type) = "delta" ->
                            /\ out' = out \cup {"rt_ai_delta"}
                            /\ UNCHANGED <<pc, ws, exc, escaped, failed, result>>
                       [] OTHER ->
                            UNCHANGED <<pc, ws, exc, escaped, failed, result, out>>
    /\ UNCHANGED <<script, env, API_KEY, response, http, wsOpens, sent, calls>>

\* lines 138-150
RT_ExceptInvalidStatusCode ==
    /\ pc = "rt_except_status"
    /\ out' = out \cup {"rt_status_failed"} \cup status_code_diag(exc.code)
    /\ exc' = NoExc
    /\ RT_Return("False")
    /\ UNCHANGED <<script, env, API_KEY, response, http, wsOpens, ws, sent, reads, lastRecv,
                   event, escaped, failed, calls>>

\* lines 152-154
RT_ExceptTimeout ==
    /\ pc = "rt_except_timeout"
    /\ out' = out \cup {"rt_timed_out"}
    /\ exc' = NoExc
    /\ RT_Return("False")
    /\ UNCHANGED <<script, env, API_KEY, response, http, wsOpens, ws, sent, reads, lastRecv,
                   event, escaped, failed, calls>>

\* lines 156-158
RT_ExceptException ==
    /\ pc = "rt_except_any"
    /\ out' = out \cup {"rt_unexpected_error"}
    /\ exc' = NoExc
    /\ RT_Return("False")
    /\ UNCHANGED <<script, env, API_KEY, response, http, wsOpens, ws, sent, reads, lastRecv,
                   event, escaped, failed, calls>>

\* lines 160-190 and 198-205: analyze_results(has_access) and main's last lines
RT_Report ==
    /\ pc = "rt_report"
    /\ out' = out \cup (IF result[RT] = "True"
                        THEN {"rt_success", "rt_ready"}
                        ELSE {"rt_cannot_access", "rt_http_fallback"})
    /\ pc' = "done"
    /\ UNCHANGED <<script, env, API_KEY, response, http, wsOpens, ws, sent, reads, lastRecv,
                   event, exc, escaped, failed, result, calls>>

RT_Next ==
    \/ RT_Main \/ RT_Begin \/ RT_Connect \/ RT_SendSessionUpdate \/ RT_RecvFirst
    \/ RT_SendItem \/ RT_SendResponseCreate \/ RT_RecvLoop
    \/ RT_ExceptInvalidStatusCode \/ RT_ExceptTimeout \/ RT_ExceptException
    \/ RT_Report

----------------------------------------------------------------------------
(* HTTP replies, shared by check_api_usage.py, test_api.py and test_gpt35.py *)

Statuses == {200, 401, 403, 429, 500}

\* shape of a response body with respect to the members the caller reads
BodyShapes == {"ok", "empty", "not_json", "nondict", "missing", "badfield"}

\* a requests.get / requests.post call: it raises, or returns a response
Responses == [raised : {"none"}, status : Statuses, body : BodyShapes]
             \cup [raised : {"ConnectionError"}, status : {0}, body : {"empty"}]

\* exception raised by response.json() followed by subscripting (d['k'][0]['m'])
subscript_raises(body) ==
    CASE body \in {"empty", "not_json"} -> "JSONDecodeError"
      [] body = "nondict"  -> "TypeError"
      [] body = "missing"  -> "KeyError"
      [] body = "badfield" -> "TypeError"
      [] OTHER -> "none"

\* exception raised by parsing followed by d.get('k', {}).get('m', default)
get_raises(body) ==
    CASE body \in {"empty", "not_json"} -> "JSONDecodeError"
      [] body = "nondict"  -> "AttributeError"
      [] body = "badfield" -> "AttributeError"
      [] OTHER -> "none"

\* exception raised by len(response.json().get('data', []))
len_get_raises(body) ==
    CASE body \in {"empty", "not_json"} -> "JSONDecodeError"
      [] body = "nondict"  -> "AttributeError"
      [] body = "badfield" -> "TypeError"
      [] OTHER -> "none"

\* how a block of code ends: it returns ret or raises, having printed prints
Returns(ret, prints) == [ret |-> ret, prints |-> prints, raised |-> "none"]
Raises(e, prints) == [ret |-> "unset", prints |-> prints, raised |-> e]

\* except_Exception catching only the network errors of requests
except_RequestException(o, tag, ret) ==
    IF o.raised = "ConnectionError" THEN Returns(ret, o.prints \cup {tag}) ELSE o

\* try: <body>  except Exception as e: print(<tag>); return <ret>
except_Exception(o, tag, ret) ==
    IF o.raised \in ExceptionClasses THEN Returns(ret, o.prints \cup {tag}) ELSE o

\* a check called from top level ends with outcome o; control goes on to next
EndCheck(c, o, next, failure) ==
    /\ result' = [result EXCEPT ![c] = o.ret]
    /\ out' = out \cup o.prints
    /\ escaped' = IF o.raised # "none" THEN o.raised ELSE escaped
    /\ pc' = IF o.raised # "none" THEN "crashed" ELSE next
    /\ failed' = IF failure THEN failed \cup {c} ELSE failed

Issue(r) == http' = [http EXCEPT ![r] = @ + 1]

----------------------------------------------------------------------------
(* check_api_usage.py *)

\* status_diag with the 401 branch written as the final else
status_diag_else(status) ==
    IF status = 200 THEN {"cal_key_valid"}
    ELSE IF status = 429 THEN {"cal_rate_limit"}
    ELSE {"cal_invalid_key"}

\* lines 39-44: the canned diagnostic for the first response's status code
status_diag(status) ==
    IF status = 200 THEN {"cal_key_valid"}
    ELSE IF status = 401 THEN {"cal_invalid_key"}
    ELSE IF status = 429 THEN {"cal_rate_limit"}
    ELSE {}

\* check_api_limits_first with the error body parsed for every status but 200
check_api_limits_first_parse_all(resp, hdr) ==
    IF resp.raised # "none" THEN Raises(resp.raised, {})
    ELSE IF resp.status # 200 /\ resp.body # "empty" /\ get_raises(resp.body) # "none"
    THEN Raises(get_raises(resp.body),
                {"cal_status_code"} \cup status_diag(resp.status)
                    \cup (IF hdr THEN {"cal_rate_headers"} ELSE {}))
    ELSE Returns("unset",
                 {"cal_status_code"} \cup status_diag(resp.status)
                     \cup (IF resp.status = 429 /\ hdr THEN {"cal_rate_headers"} ELSE {})
                     \cup (IF resp.status # 200 /\ resp.body # "empty"
                           THEN {"cal_error_details"} ELSE {})
                     \cup {"cal_possible_reasons", "cal_how_to_fix"})

\* lines 33-71 of the try body: the first request and what is printed for it
check_api_limits_first(resp, hdr) ==
    IF resp.raised # "none" THEN Raises(resp.raised, {})
    ELSE IF resp.status = 429 /\ resp.body # "empty" /\ get_raises(resp.body) # "none"
    THEN Raises(get_raises(resp.body),
                {"cal_status_code"} \cup status_diag(resp.status)
                    \cup (IF hdr THEN {"cal_rate_headers"} ELSE {}))
    ELSE Returns("unset",
                 {"cal_status_code"} \cup status_diag(resp.status)
                     \cup (IF resp.status = 429 /\ hdr THEN {"cal_rate_headers"} ELSE {})
                     \cup (IF resp.status = 429 /\ resp.body # "empty"
                           THEN {"cal_error_details"} ELSE {})
                     \cup {"cal_possible_reasons", "cal_how_to_fix"})

\* lines 74-83 of the try body: the second request
check_api_limits_second(resp) ==
    IF resp.raised # "none" THEN Raises(resp.raised, {"cal_testing_minimal"})
    ELSE IF resp.status = 200
    THEN IF len_get_raises(resp.body) # "none"
         THEN Raises(len_get_raises(resp.body), {"cal_testing_minimal"})
         ELSE Returns("None", {"cal_testing_minimal", "cal_can_list"})
    ELSE Returns("None", {"cal_testing_minimal", "cal_cannot_list"})

\* main, lines 141-152, with analyze_api_key (lines 88-113)
Usage_Main ==
    /\ pc = "main" /\ script = "check_api_usage"
    /\ IF NoKey(API_KEY)
       THEN /\ out' = out \cup {"usage_no_key"}
            /\ pc' = "done"
            /\ UNCHANGED calls
       ELSE /\ out' = out \cup {"usage_key_analysis"}
            /\ pc' = "cal_first"
            /\ calls' = Append(calls, "check_api_limits")
    /\ UNCHANGED <<script, env, API_KEY, response, http, wsOpens, ws, sent, reads, lastRecv,
                   event, exc, escaped, failed, result>>

\* check_api_limits up to line 71, or to its except clause (lines 85-86)
CAL_First ==
    /\ pc = "cal_first"
    /\ Issue("GET /v1/models/gpt-3.5-turbo")
    /\ \E resp \in Responses, hdr \in BOOLEAN :
          /\ response' = IF resp.raised = "none" THEN resp ELSE response
          /\ LET body == check_api_limits_first(resp, hdr)
                 o == except_Exception(body, "cal_error", "None")
             IN  EndCheck("check_api_limits", o,
                          IF body.raised = "none" THEN "cal_second" ELSE "usage_finish",
                          body.raised # "none" \/ resp.status # 200)
    /\ UNCHANGED <<script, env, API_KEY, wsOpens, ws, sent, reads, lastRecv, event,
                   exc, calls>>

\* check_api_limits from line 74 to its end
CAL_Second ==
    /\ pc = "cal_second"
    /\ Issue("GET /v1/models")
    /\ \E resp \in Responses :
          LET body == check_api_limits_second(resp)
              o == except_Exception(body, "cal_error", "None")
          IN  EndCheck("check_api_limits", o, "usage_finish",
                       body.raised # "none" \/ resp.status # 200)
    /\ UNCHANGED <<script, env, API_KEY, response, wsOpens, ws, sent, reads, lastRecv, event,
                   exc, calls>>

\* main, lines 153-169, with estimate_usage (lines 115-138)
Usage_Finish ==
    /\ pc = "usage_finish"
    /\ out' = out \cup {"usage_estimate", "usage_recommended"}
    /\ pc' = "done"
    /\ UNCHANGED <<script, env, API_KEY, response, http, wsOpens, ws, sent, reads, lastRecv,
                   event, exc, escaped, failed, result, calls>>

Usage_Next == Usage_Main \/ CAL_First \/ CAL_Second \/ Usage_Finish

----------------------------------------------------------------------------
(* test_api.py *)

\* lines 33-54
test_connection(resp) ==
    IF resp.raised # "none" THEN Raises(resp.raised, {})
    ELSE IF resp.status = 200
    THEN IF subscript_raises(resp.body) # "none"
         THEN Raises(subscript_raises(resp.body), {"conn_ok"})
         ELSE Returns("True", {"conn_ok", "conn_models"})
    ELSE Returns("False", {"conn_failed"})

\* lines 77-98
test_chat_completion(resp) ==
    IF resp.raised # "none" THEN Raises(resp.raised, {})
    ELSE IF resp.status = 200
    THEN IF subscript_raises(resp.body) # "none"
         THEN Raises(subscript_raises(resp.body), {})
         ELSE Returns("True", {"chat_ok"})
    ELSE Returns("False", {"chat_failed"})

\* lines 124-147; saved: whether writing /tmp/tts_test.mp3 succeeded
test_tts(resp, saved) ==
    IF resp.raised # "none" THEN Raises(resp.raised, {})
    ELSE IF resp.status = 200
    THEN IF saved
         THEN Returns("True", {"tts_ok", "tts_saved"})
         ELSE Raises("OSError", {"tts_ok"})
    ELSE Returns("False", {"tts_failed"})

\* the keys of main's results dict (lines 216-222), in insertion order
SuiteOrder == <<"test_connection", "test_chat_completion", "test_whisper",
                "test_tts", "test_complete_flow">>

\* lines 232-234: the summary line of one test
summary_line(c, r) ==
    IF r = "True"
    THEN CASE c = "test_connection"      -> "PASS Connection"
           [] c = "test_chat_completion" -> "PASS Chat Completion"
           [] c = "test_whisper"         -> "PASS Whisper STT"
           [] c = "test_tts"             -> "PASS TTS Generation"
           [] OTHER                      -> "PASS Complete Flow"
    ELSE CASE c = "test_connection"      -> "FAIL Connection"
           [] c = "test_chat_completion" -> "FAIL Chat Completion"
           [] c = "test_whisper"         -> "FAIL Whisper STT"
           [] c = "test_tts"             -> "FAIL TTS Generation"
           [] OTHER                      -> "FAIL Complete Flow"

\* line 236: sum(results.values())
total_passed(res) == Cardinality({i \in 1..Len(SuiteOrder) : res[SuiteOrder[i]] = "True"})

\* line 238: (total_passed / total_tests) * 100; the quotients k/5 * 100 are the
\* floats 0.0, 20.0, ..., 100.0 exactly, so integer arithmetic gives the same value
success_rate(res) == (total_passed(res) * 100) \div Len(SuiteOrder)

\* verdict with `>` for `>=`
verdict_strict(rate) ==
    IF rate = 100 THEN "suite_all_passed"
    ELSE IF rate > 80 THEN "suite_most_passed"
    ELSE "suite_multiple_failed"

\* lines 242-247
verdict(rate) ==
    IF rate = 100 THEN "suite_all_passed"
    ELSE IF rate >= 80 THEN "suite_most_passed"
    ELSE "suite_multiple_failed"

\* main, lines 204-213
Suite_Main ==
    /\ pc = "main" /\ script = "test_api"
    /\ IF NoKey(API_KEY)
       THEN /\ out' = out \cup {"suite_no_key"}
            /\ pc' = "done"
       ELSE /\ out' = out \cup {"suite_key"}
            /\ pc' = "t_connection"
    /\ UNCHANGED <<script, env, API_KEY, response, http, wsOpens, ws, sent, reads, lastRecv,
                   event, exc, escaped, failed, result, calls>>

\* line 217
T_Connection ==
    /\ pc = "t_connection"
    /\ Issue("GET /v1/models")
    /\ calls' = Append(calls, "test_connection")
    /\ \E resp \in Responses :
          /\ response' = IF resp.raised = "none" THEN resp ELSE response
          /\ LET body == test_connection(resp)
             IN  EndCheck("test_connection", except_Exception(body, "conn_error", "False"),
                       "t_chat", body.raised # "none" \/ resp.status # 200)
    /\ UNCHANGED <<script, env, API_KEY, wsOpens, ws, sent, reads, lastRecv, event, exc>>

\* line 218
T_ChatCompletion ==
    /\ pc = "t_chat"
    /\ Issue("POST /v1/chat/completions")
    /\ calls' = Append(calls, "test_chat_completion")
    /\ \E resp \in Responses :
          /\ response' = IF resp.raised = "none" THEN resp ELSE response
          /\ LET body == test_chat_completion(resp)
             IN  EndCheck("test_chat_completion",
                       except_Exception(body, "chat_error", "False"),
                       "t_whisper", body.raised # "none" \/ resp.status # 200)
    /\ UNCHANGED <<script, env, API_KEY, wsOpens, ws, sent, reads, lastRecv, event, exc>>

\* line 219; test_whisper, lines 100-111
T_Whisper ==
    /\ pc = "t_whisper"
    /\ calls' = Append(calls, "test_whisper")
    /\ EndCheck("test_whisper", Returns("True", {"whisper_simulated"}), "t_tts", FALSE)
    /\ UNCHANGED <<script, env, API_KEY, response, http, wsOpens, ws, sent, reads, lastRecv,
                   event, exc>>

\* line 220
T_TTS ==
    /\ pc = "t_tts"
    /\ Issue("POST /v1/audio/speech")
    /\ calls' = Append(calls, "test_tts")
    /\ \E resp \in Responses, saved \in BOOLEAN :
          /\ response' = IF resp.raised = "none" THEN resp ELSE response
          /\ LET body == test_tts(resp, saved)
             IN  EndCheck("test_tts", except_Exception(body, "tts_error", "False"),
                       "t_flow", body.raised # "none" \/ resp.status # 200)
    /\ UNCHANGED <<script, env, API_KEY, wsOpens, ws, sent, reads, lastRecv, event, exc>>

\* line 221; test_complete_flow, lines 149-170
T_CompleteFlow ==
    /\ pc = "t_flow"
    /\ calls' = Append(calls, "test_complete_flow")
    /\ EndCheck("test_complete_flow", Returns("True", {"flow_finished"}), "suite_summary",
                FALSE)
    /\ UNCHANGED <<script, env, API_KEY, response, http, wsOpens, ws, sent, reads, lastRecv,
                   event, exc>>

\* main, lines 225-247
Suite_Summary ==
    /\ pc = "suite_summary"
    /\ out' = out \cup {"suite_costs"}
                  \cup {summary_line(SuiteOrder[i], result[SuiteOrder[i]]) :
                            i \in 1..Len(SuiteOrder)}
                  \cup {verdict(success_rate(result))}
    /\ pc' = "done"
    /\ UNCHANGED <<script, env, API_KEY, response, http, wsOpens, ws, sent, reads, lastRecv,
                   event, exc, escaped, failed, result, calls>>

Suite_Next ==
    \/ Suite_Main \/ T_Connection \/ T_ChatCompletion \/ T_Whisper \/ T_TTS
    \/ T_CompleteFlow \/ Suite_Summary

----------------------------------------------------------------------------
(* test_gpt35.py *)

\* lines 45-59 of the try body
gpt35_body(resp) ==
    IF resp.raised # "none" THEN Raises(resp.raised, {})
    ELSE IF resp.status = 200
    THEN IF subscript_raises(resp.body) # "none"
         THEN Raises(subscript_raises(resp.body), {})
         ELSE Returns("None", {"gpt_success"})
    ELSE IF subscript_raises(resp.body) # "none"
         THEN Raises(subscript_raises(resp.body), {"gpt_failed"})
         ELSE Returns("None", {"gpt_failed", "gpt_error_message"})

\* the module body, lines 19-62: no test of API_KEY precedes the request
Gpt35_Body ==
    /\ pc = "main" /\ script = "test_gpt35"
    /\ Issue("POST /v1/chat/completions")
    /\ calls' = Append(calls, "gpt35_body")
    /\ \E resp \in Responses :
          /\ response' = IF resp.raised = "none" THEN resp ELSE response
          /\ LET body == gpt35_body(resp)
             IN  EndCheck("gpt35_body", except_Exception(body, "gpt_error", "None"),
                       "done", body.raised # "none" \/ resp.status # 200)
    /\ UNCHANGED <<script, env, API_KEY, wsOpens, ws, sent, reads, lastRecv, event, exc>>

----------------------------------------------------------------------------

Next == LoadKey \/ RT_Next \/ Usage_Next \/ Suite_Next \/ Gpt35_Body

Spec == Init /\ [][Next]_vars

\* the interpreter keeps running the script, and every await returns: a read
\* delivers an event or hits its timeout
FairSpec == Spec /\ WF_vars(Next)

SpecKey == InitKey /\ [][LoadKey]_vars

----------------------------------------------------------------------------
(* Properties *)

Update == "session.update"
Item == "conversation.item.create"
Create == "response.create"

Realtime == script = "test_realtime_api"

\* C1: in test_realtime_connection, conversation.item.create and response.create
\* are sent only after session.created was received as the first server event,
\* item before create, each at most once; when the first event is anything else
\* neither is sent.  Every send appends one message; item is sent only right
\* after the single read so far parsed a session.created event and session.update
\* is all that was sent, create only when update and item are all that was sent.
C1_SendsOnlyAfterSessionCreated ==
    [][ sent' # sent =>
          /\ \E m \in {Update, Item, Create} : sent' = Append(sent, m)
          /\ sent' # <<Update>> =>
                /\ reads = 1 /\ lastRecv = "event" /\ event = "session.created"
                /\ sent' \in {<<Update, Item>>, <<Update, Item, Create>>} ]_vars

C1_Witness ==
    pc = "rt_loop" /\ sent = <<Update, Item, Create>> /\ reads = 1

\* C2 as claimed: once response.create has been sent, the response loop ends and
\* test_realtime_connection returns, whatever the server delivers.
C2_LoopAlwaysEnds == (pc = "rt_loop") ~> (pc = "done")

\* a read in the response loop that delivers a well-formed event other than
\* response.done
NonTerminalRead ==
    /\ pc = "rt_loop"
    /\ reads' # reads
    /\ lastRecv' = "event"
    /\ event' # "response.done"

\* C2 amended: the timeout is per read, so the response loop ends once a read
\* delivers response.done, times out or fails; it ends in every run in which the
\* server at some point stops delivering non-terminal events.
C2_LoopEndsUnlessFed ==
    <>[][~NonTerminalRead]_vars => <>[](pc # "rt_loop")

C2_Witness ==
    /\ pc = "done" /\ sent = <<Update, Item, Create>>
    /\ lastRecv = "timeout" /\ "rt_ai_delta" \in out /\ result[RT] = "False"

\* the diagnostics a check prints for a failure
FailureDiags(c) ==
    CASE c = "check_api_limits"     -> {"cal_status_code", "cal_error"}
      [] c = "test_connection"      -> {"conn_failed", "conn_error"}
      [] c = "test_chat_completion" -> {"chat_failed", "chat_error"}
      [] c = "test_tts"             -> {"tts_failed", "tts_error"}
      [] c = "gpt35_body"           -> {"gpt_failed", "gpt_error"}
      [] c = RT -> {"rt_status_failed", "rt_timed_out", "rt_unexpected_error",
                    "rt_server_error", "rt_unexpected"}
      [] OTHER -> {}

\* the checks without a return statement
ReturnsNothing == {"check_api_limits", "gpt35_body"}

\* C3: a failure inside a check (network error, non-200 status, handshake
\* failure, malformed or incomplete reply, read timeout) never leaves the check
\* as an exception; the check ends with a printed diagnostic and returns False
\* (None where it returns no value).
C3_FailuresAreCaught ==
    /\ escaped = "none"
    /\ pc # "crashed"
    /\ \A c \in failed :
          result[c] # "unset" =>
             /\ result[c] = IF c \in ReturnsNothing THEN "None" ELSE "False"
             /\ out \cap FailureDiags(c) # {}

C3_Witness ==
    /\ pc = "done"
    /\ \/ RT \in failed /\ lastRecv = "badjson" /\ result[RT] = "False"
       \/ "test_chat_completion" \in failed /\ "chat_error" \in out

Count(q, m) == Cardinality({i \in 1..Len(q) : q[i] = m})

\* C4: nothing is retried: every HTTP request is issued at most once, at most
\* one WebSocket connection is opened, every message type is sent at most once,
\* and after a failure in test_realtime_connection nothing more is sent and no
\* connection is opened.
C4_NoRetry ==
    [][ /\ \A r \in Requests : http'[r] <= 1
        /\ wsOpens' <= 1
        /\ \A m \in {Update, Item, Create} : Count(sent', m) <= 1
        /\ RT \in failed => sent' = sent /\ wsOpens' = wsOpens ]_vars

C4_Witness ==
    /\ pc = "done" /\ RT \in failed /\ lastRecv = "timeout"
    /\ wsOpens = 1 /\ sent = <<Update, Item, Create>>

\* C5: a read timeout in test_realtime_connection, at the first read or in the
\* response loop, unwinds the check: control goes to the timeout handler, the
\* timed-out diagnostic is printed and False returned, and from the timeout on
\* nothing is sent and nothing is read.
C5_TimeoutUnwinds ==
    [][ /\ lastRecv' = "timeout" =>
              /\ pc' \in {"rt_except_timeout", "rt_report", "done"}
              /\ pc' \in {"rt_report", "done"} =>
                    result'[RT] = "False" /\ "rt_timed_out" \in out'
        /\ lastRecv = "timeout" => sent' = sent /\ reads' = reads ]_vars

C5_Witness ==
    /\ pc = "done" /\ lastRecv = "timeout" /\ "rt_session_created" \in out
    /\ reads = 3 /\ "rt_timed_out" \in out

RECURSIVE FirstKeyLine(_)
FirstKeyLine(f) ==
    IF f = <<>> THEN <<>>
    ELSE IF startswith(Head(f), Prefix) THEN Head(f)
    ELSE FirstKeyLine(Tail(f))

HasKeyLine(f) == \E i \in 1..Len(f) : startswith(f[i], Prefix)

TokenOf(line) == strip(SubSeq(line, Len(Prefix) + 1, Len(line)))

\* C6: load_api_key returns the whole text after the prefix on the first line
\* that starts with OPENAI_API_KEY=, stripped, also when that text contains "=";
\* it returns None when no line starts with the prefix.
C6_LoadReturnsWholeToken ==
    pc = "main" =>
        API_KEY = IF HasKeyLine(env) THEN TokenOf(FirstKeyLine(env)) ELSE None

StatusDiags == {"cal_key_valid", "cal_invalid_key", "cal_rate_limit"}

\* check_api_limits has received its first response
FirstResponseSeen == script = "check_api_usage" /\ response # NoResponse

\* C7 as claimed: for every status code of the first response exactly one of the
\* three canned status diagnostics is printed, the one matching the status.
C7_OneDiagForEveryStatus ==
    FirstResponseSeen =>
        /\ "cal_key_valid" \in out <=> response.status = 200
        /\ "cal_invalid_key" \in out <=> response.status = 401
        /\ "cal_rate_limit" \in out <=> response.status = 429
        /\ Cardinality(out \cap StatusDiags) = 1

\* C7 amended: the key-valid message is printed iff the status is 200, the
\* invalid-key message iff 401, the rate-limit message iff 429; never two of
\* them, and for any other status none of the three (only the status code line).
C7_AtMostOneStatusDiag ==
    FirstResponseSeen =>
        /\ "cal_key_valid" \in out <=> response.status = 200
        /\ "cal_invalid_key" \in out <=> response.status = 401
        /\ "cal_rate_limit" \in out <=> response.status = 429
        /\ Cardinality(out \cap StatusDiags) <= 1
        /\ response.status \notin {200, 401, 429} => out \cap StatusDiags = {}
        /\ "cal_status_code" \in out

C7_Witness ==
    /\ FirstResponseSeen /\ pc = "done"
    /\ response.status = 401 /\ out \cap StatusDiags = {"cal_invalid_key"}

\* C8: test_realtime_connection returns True iff the connection was
\* established, the first event was session.created and a response.done event
\* was then received with no failure before it; otherwise it returns False; main
\* reports Realtime access as available exactly when the result is True.
C8_TrueIffResponseDone ==
    Realtime /\ pc \in {"rt_report", "done"} =>
        /\ result[RT] \in {"True", "False"}
        /\ result[RT] = "True" <=>
              /\ wsOpens = 1 /\ "rt_connected" \in out
              /\ "rt_session_created" \in out
              /\ sent = <<Update, Item, Create>>
              /\ lastRecv = "event" /\ event = "response.done"
              /\ RT \notin failed
        /\ pc = "done" =>
              /\ {"rt_success", "rt_ready"} \subseteq out <=> result[RT] = "True"
              /\ {"rt_success", "rt_ready"} \cap out # {} <=> result[RT] = "True"
              /\ {"rt_cannot_access", "rt_http_fallback"} \subseteq out
                    <=> result[RT] = "False"
              /\ {"rt_cannot_access", "rt_http_fallback"} \cap out # {}
                    <=> result[RT] = "False"

C8_Witness ==
    Realtime /\ pc = "done" /\ result[RT] = "True" /\ "rt_ready" \in out

\* C9: in the response loop a well-formed event whose type is not response.done
\* changes nothing of the exchange: no message is sent, no result is decided,
\* the connection stays open and the loop goes on to the next read; only
\* response.done ends the loop with True.
C9_NonTerminalEventsIgnored ==
    [][ /\ NonTerminalRead =>
              /\ pc' = "rt_loop"
              /\ UNCHANGED <<sent, result, ws, wsOpens, failed, exc, escaped, calls>>
        /\ pc = "rt_loop" /\ result'[RT] = "True" =>
              lastRecv' = "event" /\ event' = "response.done" ]_vars

C9_Witness ==
    pc = "rt_loop" /\ reads = 2 /\ lastRecv = "event" /\ event = "error"

Passed == {c \in {SuiteOrder[i] : i \in 1..Len(SuiteOrder)} : result[c] = "True"}

Verdicts == {"suite_all_passed", "suite_most_passed", "suite_multiple_failed"}

\* C10: once main of test_api.py has found a key it runs Connection, Chat
\* Completion, Whisper STT, TTS Generation and Complete Flow in that order
\* whatever the earlier results; it reports PASS for a check exactly when the
\* check returned True, and prints 'All tests passed' iff all five returned
\* True, 'Most tests passed' iff exactly four did, 'Multiple tests failed'
\* otherwise.
C10_SuiteRunsAllAndReports ==
    script = "test_api" =>
        /\ \E n \in 0..Len(SuiteOrder) : calls = SubSeq(SuiteOrder, 1, n)
        /\ pc = "done" /\ ~NoKey(API_KEY) =>
              /\ calls = SuiteOrder
              /\ "PASS Connection" \in out <=> result["test_connection"] = "True"
              /\ "FAIL Connection" \in out <=> result["test_connection"] # "True"
              /\ "PASS Chat Completion" \in out
                    <=> result["test_chat_completion"] = "True"
              /\ "FAIL Chat Completion" \in out
                    <=> result["test_chat_completion"] # "True"
              /\ "PASS Whisper STT" \in out <=> result["test_whisper"] = "True"
              /\ "FAIL Whisper STT" \in out <=> result["test_whisper"] # "True"
              /\ "PASS TTS Generation" \in out <=> result["test_tts"] = "True"
              /\ "FAIL TTS Generation" \in out <=> result["test_tts"] # "True"
              /\ "PASS Complete Flow" \in out <=> result["test_complete_flow"] = "True"
              /\ "FAIL Complete Flow" \in out <=> result["test_complete_flow"] # "True"
              /\ "suite_all_passed" \in out <=> Cardinality(Passed) = 5
              /\ "suite_most_passed" \in out <=> Cardinality(Passed) = 4
              /\ "suite_multiple_failed" \in out <=> Cardinality(Passed) <= 3
              /\ Cardinality(out \cap Verdicts) = 1

C10_Witness ==
    /\ script = "test_api" /\ pc = "done"
    /\ result["test_connection"] = "False" /\ Cardinality(Passed) = 4
    /\ "suite_most_passed" \in out

\* C11: no script issues a network request without a credential: when
\* load_api_key found no key line, or an empty token, the run performs no HTTP
\* request and opens no WebSocket connection.
C11_NoRequestWithoutKey ==
    pc # "load" /\ NoKey(API_KEY) =>
        /\ \A r \in Requests : http[r] = 0
        /\ wsOpens = 0

ListModels == "GET /v1/models"

ListOutcomes == {"cal_can_list", "cal_cannot_list"}

\* check_api_limits has ended
LimitsEnded == pc \in {"usage_finish", "done"}

\* the first response is a 429 whose non-empty body is not a JSON object with
\* an object (or no) 'error' member: lines 56-57 raise on it
UnreadableQuotaBody ==
    response.status = 429 /\ response.body \in {"not_json", "nondict", "badfield"}

\* C12 as claimed: whenever the first request of check_api_limits returned a
\* response, whatever its status and body, the second request (GET /v1/models)
\* is issued and its outcome, can list or cannot list models, is printed.
C12_SecondRequestAlways ==
    FirstResponseSeen /\ LimitsEnded =>
        /\ http[ListModels] = 1
        /\ out \cap ListOutcomes # {}

\* C12 amended: whenever the first request returned a response, the second
\* request is issued once, except after a 429 whose non-empty body cannot be
\* read as an error object: parsing it raises and the check ends with the error
\* diagnostic.  When the second request is issued, exactly one of its outcome
\* (can list, cannot list) and the error diagnostic is printed: the error
\* diagnostic when the request raised or its 200 body could not be read.
C12_SecondRequestUnlessParseFails ==
    FirstResponseSeen /\ LimitsEnded =>
        /\ http[ListModels] = IF UnreadableQuotaBody THEN 0 ELSE 1
        /\ UnreadableQuotaBody => "cal_error" \in out /\ out \cap ListOutcomes = {}
        /\ http[ListModels] = 1 =>
              /\ "cal_testing_minimal" \in out
              /\ Cardinality(out \cap (ListOutcomes \cup {"cal_error"})) = 1

C12_Witness ==
    /\ FirstResponseSeen /\ pc = "done"
    /\ response.status = 429 /\ response.body = "ok"
    /\ http[ListModels] = 1 /\ "cal_cannot_list" \in out

\* C13: whenever test_realtime_connection returns after the WebSocket
\* connection was opened, on every exit path (success, error event, unexpected
\* first event, timeout, malformed JSON, any other exception), the connection
\* has been closed: it is open only while control is inside the `async with`
\* block.
C13_ConnectionClosedOnReturn ==
    /\ ws = "open" =>
          pc \in {"rt_send_update", "rt_recv_first", "rt_send_item", "rt_send_create",
                  "rt_loop"}
    /\ "rt_connected" \in out /\ result[RT] # "unset" => ws = "closed"

C13_Witness ==
    /\ pc = "done" /\ ws = "closed" /\ result[RT] = "False"
    /\ lastRecv = "badjson" /\ sent = <<Update, Item, Create>>

====
